---- MODULE Spec2Model ----
\* A model of SocialMediaBot (src/D.py): the transcoder _process_video, the three
\* platform adapters, distribute_video and process_upload_folder.
\*
\* Python exceptions are modelled explicitly: every operator that stands for a
\* Python function returns a record with a field exc, TRUE when an Exception
\* propagates out of the function.  The remote services and ffmpeg are opaque:
\* their outcome is an input of the step that calls them.
EXTENDS Integers, Sequences, FiniteSets, TLC

VARIABLES
    clients,      \* self.clients: the platforms that have an authenticated client
    settings,     \* self.settings
    fs,           \* the files that exist (paths)
    pc,           \* where the bot is: idle, in distribute_video's loop, returned, ...
    caller,       \* who called distribute_video: "caller" or "folder"
    video_path,   \* distribute_video's argument
    platforms,    \* distribute_video's platforms, after defaulting (<<>> stands for None)
    idx,          \* position of the for loop in platforms
    results,      \* distribute_video's results dict
    now,          \* time elapsed since distribute_video was entered
    attempts,     \* history: one record per try block the current call executed
    pending,      \* process_upload_folder: glob entries not yet visited
    folderLog,    \* history: what process_upload_folder did with each entry
    direct        \* history: the last adapter call made directly (not via distribute_video)

vars == <<clients, settings, fs, pc, caller, video_path, platforms, idx, results,
          now, attempts, pending, folderLog, direct>>

----------------------------------------------------------------------------
\* Bounds of the model.

\* longest platform list a caller passes to distribute_video
MaxLen == 2

\* the times an adapter call may take
Durations == {0, 1}

----------------------------------------------------------------------------
\* Platforms, settings, files.

\* the platforms _initialize_clients can build a client for
Known == {"youtube", "instagram", "facebook"}

\* names a caller may put in a platform list: the known ones and an unknown one
Names == Known \cup {"tiktok"}

PlatformLists == UNION {[1..n -> Names] : n \in 0..MaxLen}

\* a shorter wait than the code's
RateLimit_short == 5 - 4

\* time.sleep(5)
RateLimit == 5

\* options['type'] values: "absent" is an options dict without the key
Types == {"absent", "video", "short", "reels", "story", "feed"}

\* settings['platforms']: haskey is FALSE for a settings file without the key;
\* opts[p] is settings['platforms'].get(p, {})
PlatformSettings ==
    { [haskey |-> FALSE, opts |-> [p \in Known |-> [type |-> "absent"]]],
      [haskey |-> TRUE, opts |-> [p \in Known |-> [type |-> "absent"]]],
      [haskey |-> TRUE,
       opts |-> [p \in Known |-> [type |-> IF p = "youtube" THEN "short" ELSE "reels"]]] }

\* settings['default_platforms']: haskey is FALSE for a settings file without the key
DefaultLists ==
    { [haskey |-> FALSE, list |-> <<>>],
      [haskey |-> TRUE, list |-> <<"youtube", "instagram", "facebook">>],
      [haskey |-> TRUE, list |-> <<"instagram", "tiktok", "instagram">>] }

SettingsSet == [platforms : PlatformSettings, default_platforms : DefaultLists]

\* A file name is a sequence of pieces, "." being the dot; a path is a directory
\* (a sequence of directory names) and a file name.
MkPath(dir, name) == [dir |-> dir, name |-> name]

UploadDir == <<"uploads">>
ProcessedDir == <<"uploads", "processed">>

InitFiles ==
    { MkPath(UploadDir, <<"clip", ".", "mp4">>),
      MkPath(UploadDir, <<"HOLIDAY", ".", "MOV">>),
      MkPath(UploadDir, <<"notes", ".", "txt">>),
      MkPath(UploadDir, <<"README">>),
      MkPath(<<"videos">>, <<"talk", ".", "Mkv">>) }

\* paths a caller may hand to distribute_video: the files above and a missing one
CallPaths == { MkPath(<<"videos">>, <<"talk", ".", "Mkv">>),
               MkPath(<<"videos">>, <<"gone", ".", "mp4">>) }

EmptyMap == [q \in {} |-> FALSE]

\* an assignment that overwrites the entries of the other platforms too
Put_clobber(map, p, v) == [q \in DOMAIN map \cup {p} |-> v]

\* results[p] = v
Put(map, p, v) == [q \in DOMAIN map \cup {p} |-> IF q = p THEN v ELSE map[q]]

----------------------------------------------------------------------------
\* _process_video

\* f"uploads/processed/{platform}_{Path(video_path).name}"
OutputPath(path, platform) == MkPath(ProcessedDir, <<platform, "_">> \o path.name)

\* a transcoder without the fallback: the output path whatever ffmpeg did
process_video_nofallback(path, platform, ffmpeg_ok) ==
    [exc |-> FALSE, value |-> OutputPath(path, platform)]

\* ffmpeg_ok: whether the ffmpeg run succeeded.  The except clause returns the
\* original path, so no exception leaves the function.
process_video(path, platform, ffmpeg_ok) ==
    [exc |-> FALSE,
     value |-> IF ffmpeg_ok THEN OutputPath(path, platform) ELSE path]

----------------------------------------------------------------------------
\* The platform adapters.

\* What a remote service answers to one invocation: it accepts the upload or
\* rejects it (the client raises); the long-form host may accept with a response
\* that carries no 'id'.
Replies(platform) ==
    IF platform = "youtube" THEN {"accepted", "accepted_no_id", "rejected"}
                            ELSE {"accepted", "rejected"}

\* options.get('type', default)
GetType(options, default) == IF options.type = "absent" THEN default ELSE options.type

\* An adapter's outcomes: an exception, or a returned value; remote is the
\* sequence of remote invocations made and processed the path _process_video
\* returned (empty while it has not returned).
Raise(remote, processed) ==
    [exc |-> TRUE, value |-> FALSE, remote |-> remote, processed |-> processed]

Return(value, remote, processed) ==
    [exc |-> FALSE, value |-> value, remote |-> remote, processed |-> processed]

\* an adapter without its except clause
Catch_not(body) == body

\* except Exception as e: ...; return False
Catch(body) == IF body.exc THEN [body EXCEPT !.exc = FALSE, !.value = FALSE] ELSE body

RemoteCall(platform, endpoint, path, reply) ==
    [platform |-> platform, endpoint |-> endpoint, path |-> path, reply |-> reply]

\* has_client: 'youtube' in self.clients (self.clients['youtube'] raises KeyError
\* otherwise); request.execute() raises when the service rejects, and
\* response['id'] raises when the response carries no id.
upload_to_youtube(path, options, has_client, ffmpeg_ok, reply) ==
    LET pv == process_video(path, "youtube", ffmpeg_ok)
        upload_type == GetType(options, "video")
        call == RemoteCall("youtube",
                           IF upload_type = "short" THEN "videos.insert(short)"
                                                    ELSE "videos.insert",
                           pv.value, reply)
    IN  Catch(IF pv.exc THEN Raise(<<>>, <<>>)
              ELSE IF ~has_client THEN Raise(<<>>, <<pv.value>>)
              ELSE IF reply = "rejected" THEN Raise(<<call>>, <<pv.value>>)
              ELSE IF reply = "accepted_no_id" THEN Raise(<<call>>, <<pv.value>>)
              ELSE Return(TRUE, <<call>>, <<pv.value>>))

upload_to_instagram(path, options, has_client, ffmpeg_ok, reply) ==
    LET pv == process_video(path, "instagram", ffmpeg_ok)
        upload_type == GetType(options, "feed")
        call == RemoteCall("instagram",
                           IF upload_type = "reels" THEN "clip_upload"
                           ELSE IF upload_type = "story" THEN "video_upload_to_story"
                           ELSE "video_upload",
                           pv.value, reply)
    IN  Catch(IF pv.exc THEN Raise(<<>>, <<>>)
              ELSE IF ~has_client THEN Raise(<<>>, <<pv.value>>)
              ELSE IF reply = "rejected" THEN Raise(<<call>>, <<pv.value>>)
              ELSE Return(TRUE, <<call>>, <<pv.value>>))

upload_to_facebook(path, options, has_client, ffmpeg_ok, reply) ==
    LET pv == process_video(path, "facebook", ffmpeg_ok)
        upload_type == GetType(options, "feed")
        call == RemoteCall("facebook",
                           IF upload_type = "reels" THEN "create_reel" ELSE "create_video",
                           pv.value, reply)
    IN  Catch(IF pv.exc THEN Raise(<<>>, <<>>)
              ELSE IF ~has_client THEN Raise(<<>>, <<pv.value>>)
              ELSE IF reply = "rejected" THEN Raise(<<call>>, <<pv.value>>)
              ELSE Return(TRUE, <<call>>, <<pv.value>>))

\* the adapter of a known platform
Adapter(platform, path, options, has_client, ffmpeg_ok, reply) ==
    CASE platform = "youtube" -> upload_to_youtube(path, options, has_client, ffmpeg_ok, reply)
      [] platform = "instagram" -> upload_to_instagram(path, options, has_client, ffmpeg_ok, reply)
      [] platform = "facebook" -> upload_to_facebook(path, options, has_client, ffmpeg_ok, reply)

----------------------------------------------------------------------------
\* distribute_video

\* a precondition check that lets every path through
Exists_always(path) == TRUE

\* Path(video_path).exists()
Exists(path) == path \in fs

\* self.settings.get('default_platforms', [])
DefaultPlatforms == IF settings.default_platforms.haskey
                      THEN settings.default_platforms.list ELSE <<>>

\* a loop that skips no platform
NoClient_never(platform) == FALSE

\* platform not in self.clients
NoClient(platform) == platform \notin clients

\* Outcome of the statements of the try block (the dispatch and the sleep):
\* exc: an exception left them; assigned: results[platform] was assigned, to
\* value; ret: what the adapter returned, when it was entered and returned;
\* invoked: the adapter was entered; slept: time.sleep(5) ran.
\* self.settings['platforms'] is evaluated before the adapter is entered and
\* raises KeyError when the key is missing.  A platform that matches no branch
\* assigns nothing and still sleeps.
Dispatch(platform, path, ffmpeg_ok, reply) ==
    LET none == [exc |-> FALSE, assigned |-> FALSE, value |-> FALSE, invoked |-> FALSE,
                 ret |-> <<>>, slept |-> TRUE, remote |-> <<>>, processed |-> <<>>]
    IN  IF platform \in Known
          THEN IF ~settings.platforms.haskey
                 THEN [none EXCEPT !.exc = TRUE, !.slept = FALSE]
               ELSE LET r == Adapter(platform, path, settings.platforms.opts[platform],
                                     platform \in clients, ffmpeg_ok, reply)
                    IN  IF r.exc
                          THEN [none EXCEPT !.exc = TRUE, !.slept = FALSE, !.invoked = TRUE,
                                            !.remote = r.remote, !.processed = r.processed]
                        ELSE [none EXCEPT !.assigned = TRUE, !.value = r.value,
                                          !.ret = <<r.value>>, !.invoked = TRUE,
                                          !.remote = r.remote, !.processed = r.processed]
        ELSE none

\* the statements of the try block without the except clause
TryBlock_nocatch(platform, path, ffmpeg_ok, reply) ==
    Dispatch(platform, path, ffmpeg_ok, reply)

\* try: ... except Exception as e: results[platform] = False
TryBlock(platform, path, ffmpeg_ok, reply) ==
    LET b == Dispatch(platform, path, ffmpeg_ok, reply)
    IN  IF b.exc THEN [b EXCEPT !.exc = FALSE, !.assigned = TRUE, !.value = FALSE] ELSE b

\* a loop that passes over the next platform
Advance_skip(i) == i + 2

\* for platform in platforms: the position after position i
Advance(i) == i + 1

\* where the call is once the loop is at position i of list l
After(i, l) == IF i > Len(l) THEN "returned" ELSE "loop"

\* Entry of distribute_video up to the for loop; arg is the platforms argument
\* and list what it resolves to.
Enter(path, arg, list, who) ==
    /\ video_path' = path
    /\ caller' = who
    /\ results' = EmptyMap
    /\ now' = 0
    /\ attempts' = <<>>
    /\ idx' = 1
    /\ IF ~Exists(path)
         THEN platforms' = arg /\ pc' = "returned"
         ELSE platforms' = list /\ pc' = After(1, list)
    /\ UNCHANGED <<clients, settings, fs, direct>>

\* a caller calls distribute_video(path, list)
distribute_video(path, list) ==
    /\ pc = "idle"
    /\ Enter(path, list, list, "caller")
    /\ UNCHANGED <<pending, folderLog>>

\* a caller calls distribute_video(path): platforms is None
distribute_video_default(path) ==
    /\ pc = "idle"
    /\ Enter(path, <<>>, DefaultPlatforms, "caller")
    /\ UNCHANGED <<pending, folderLog>>

\* One iteration of the for loop for a platform without a client: continue.
LoopSkip ==
    /\ pc = "loop"
    /\ NoClient(platforms[idx])
    /\ idx' = Advance(idx)
    /\ pc' = After(Advance(idx), platforms)
    /\ UNCHANGED <<clients, settings, fs, caller, video_path, platforms, results, now,
                   attempts, pending, folderLog, direct>>

\* One iteration of the for loop for a platform with a client: the try block.
\* dur is the time the adapter takes.
LoopAttempt(ffmpeg_ok, reply, dur) ==
    /\ pc = "loop"
    /\ ~NoClient(platforms[idx])
    /\ reply \in Replies(platforms[idx])
    /\ LET p == platforms[idx]
           t == TryBlock(p, video_path, ffmpeg_ok, reply)
           end == now + (IF t.invoked THEN dur ELSE 0) + (IF t.slept THEN RateLimit ELSE 0)
       IN  /\ results' = IF t.assigned THEN Put(results, p, t.value) ELSE results
           /\ now' = end
           /\ attempts' = Append(attempts,
                 [idx |-> idx, platform |-> p, ffmpeg_ok |-> ffmpeg_ok, reply |-> reply,
                  at |-> now, invoked |-> t.invoked, ret |-> t.ret,
                  remote |-> t.remote, processed |-> t.processed,
                  assigned |-> t.assigned, value |-> t.value, slept |-> t.slept,
                  until |-> end])
           /\ idx' = IF t.exc THEN idx ELSE Advance(idx)
           /\ pc' = IF t.exc THEN "raised" ELSE After(Advance(idx), platforms)
    /\ UNCHANGED <<clients, settings, fs, caller, video_path, platforms, pending,
                   folderLog, direct>>

\* distribute_video returned to a caller other than process_upload_folder
Resume ==
    /\ pc \in {"returned", "direct"}
    /\ caller = "caller"
    /\ pc' = "idle"
    /\ video_path' = MkPath(<<>>, <<>>)
    /\ platforms' = <<>>
    /\ idx' = 1
    /\ results' = EmptyMap
    /\ now' = 0
    /\ attempts' = <<>>
    /\ direct' = <<>>
    /\ UNCHANGED <<clients, settings, fs, caller, pending, folderLog>>

\* a caller calls an adapter directly
upload_direct(platform, path, type, ffmpeg_ok, reply) ==
    /\ pc = "idle"
    /\ reply \in Replies(platform)
    /\ pc' = "direct"
    /\ caller' = "caller"
    /\ direct' = << [platform |-> platform, path |-> path, type |-> type,
                     has_client |-> platform \in clients, ffmpeg_ok |-> ffmpeg_ok,
                     reply |-> reply,
                     result |-> Adapter(platform, path, [type |-> type],
                                        platform \in clients, ffmpeg_ok, reply)] >>
    /\ UNCHANGED <<clients, settings, fs, video_path, platforms, idx, results, now,
                   attempts, pending, folderLog>>

----------------------------------------------------------------------------
\* process_upload_folder

\* str.lower() on the pieces of the file names of the model
LowerPiece(s) ==
    CASE s = "MOV" -> "mov"
      [] s = "Mkv" -> "mkv"
      [] s = "HOLIDAY" -> "holiday"
      [] OTHER -> s

Lower(name) == [i \in 1..Len(name) |-> LowerPiece(name[i])]

\* Path.suffix: the name from its last dot on, empty when the last dot is the
\* first or the last character or there is none
Suffix(name) ==
    LET dots == {i \in 1..Len(name) : name[i] = "."}
    IN  IF dots = {} THEN <<>>
        ELSE LET i == CHOOSE j \in dots : \A k \in dots : k <= j
             IN  IF 1 < i /\ i < Len(name) THEN SubSeq(name, i, Len(name)) ELSE <<>>

\* glob('*.*'): the names that hold a dot
Glob(name) == \E i \in 1..Len(name) : name[i] = "."

VideoSuffixes == {<<".", "mp4">>, <<".", "mov">>, <<".", "avi">>, <<".", "mkv">>}

\* a case-sensitive extension test
IsVideo_exact(file) == Suffix(file.name) \in VideoSuffixes

\* video_file.suffix.lower() in ['.mp4', '.mov', '.avi', '.mkv']
IsVideo(file) == Lower(Suffix(file.name)) \in VideoSuffixes

\* video_file.rename(upload_dir / 'processed' / video_file.name)
Rename(files, file) == (files \ {file}) \cup {MkPath(ProcessedDir, file.name)}

\* process_upload_folder is called: the glob lists the directory
process_upload_folder ==
    /\ pc = "idle"
    /\ pc' = "folder"
    /\ pending' = {f \in fs : f.dir = UploadDir /\ Glob(f.name)}
    /\ folderLog' = <<>>
    /\ UNCHANGED <<clients, settings, fs, caller, video_path, platforms, idx, results,
                   now, attempts, direct>>

\* the loop reaches an entry that is not a video: nothing is done with it
FolderIgnore(file) ==
    /\ pc = "folder"
    /\ file \in pending
    /\ ~IsVideo(file)
    /\ pending' = pending \ {file}
    /\ folderLog' = Append(folderLog, [file |-> file, distributed |-> FALSE,
                                       results |-> EmptyMap, moved |-> FALSE])
    /\ UNCHANGED <<clients, settings, fs, pc, caller, video_path, platforms, idx,
                   results, now, attempts, direct>>

\* the loop reaches a video: distribute_video(str(video_file))
FolderDistribute(file) ==
    /\ pc = "folder"
    /\ file \in pending
    /\ IsVideo(file)
    /\ Enter(file, <<>>, DefaultPlatforms, "folder")
    /\ UNCHANGED <<pending, folderLog>>

\* distribute_video returned to process_upload_folder: the file is renamed
FolderMove ==
    /\ pc = "returned"
    /\ caller = "folder"
    /\ fs' = Rename(fs, video_path)
    /\ pending' = pending \ {video_path}
    /\ folderLog' = Append(folderLog, [file |-> video_path, distributed |-> TRUE,
                                       results |-> results, moved |-> TRUE])
    /\ pc' = "folder"
    /\ UNCHANGED <<clients, settings, caller, video_path, platforms, idx, results, now,
                   attempts, direct>>

\* the glob is exhausted: process_upload_folder returns
FolderDone ==
    /\ pc = "folder"
    /\ pending = {}
    /\ pc' = "idle"
    /\ caller' = "caller"
    /\ video_path' = MkPath(<<>>, <<>>)
    /\ platforms' = <<>>
    /\ idx' = 1
    /\ results' = EmptyMap
    /\ now' = 0
    /\ attempts' = <<>>
    /\ folderLog' = <<>>
    /\ UNCHANGED <<clients, settings, fs, pending, direct>>

----------------------------------------------------------------------------
\* The bot after __init__: the clients that could be built, the settings that
\* were loaded, the files on disk.
Init ==
    /\ clients \in SUBSET Known
    /\ settings \in SettingsSet
    /\ fs = InitFiles
    /\ pc = "idle"
    /\ caller = "caller"
    /\ video_path = MkPath(<<>>, <<>>)
    /\ platforms = <<>>
    /\ idx = 1
    /\ results = EmptyMap
    /\ now = 0
    /\ attempts = <<>>
    /\ pending = {}
    /\ folderLog = <<>>
    /\ direct = <<>>

AllReplies == UNION {Replies(p) : p \in Names}

\* the loop of distribute_video, whoever called it
Loop ==
    \/ LoopSkip
    \/ \E ffmpeg_ok \in BOOLEAN, reply \in AllReplies, dur \in Durations :
          LoopAttempt(ffmpeg_ok, reply, dur)

\* callers that use distribute_video and the adapters
Next ==
    \/ \E path \in CallPaths, list \in PlatformLists : distribute_video(path, list)
    \/ \E path \in CallPaths : distribute_video_default(path)
    \/ Loop
    \/ Resume
    \/ \E platform \in Known, path \in CallPaths, type \in Types,
          ffmpeg_ok \in BOOLEAN, reply \in AllReplies :
          upload_direct(platform, path, type, ffmpeg_ok, reply)

Spec == Init /\ [][Next]_vars

\* callers that use process_upload_folder (the program's main block)
FolderNext ==
    \/ process_upload_folder
    \/ \E file \in pending : FolderIgnore(file)
    \/ \E file \in pending : FolderDistribute(file)
    \/ Loop
    \/ FolderMove
    \/ FolderDone

FolderSpec == Init /\ [][FolderNext]_vars

----------------------------------------------------------------------------
\* Properties.

\* the attempts of the current call for platform p, and the last of them
AttemptsOf(p) == {k \in DOMAIN attempts : attempts[k].platform = p}

LastOf(p) == CHOOSE k \in AttemptsOf(p) : \A j \in AttemptsOf(p) : j <= k

InCall == pc \in {"loop", "returned"}

\* C1: when distribute_video returns for an existing asset, the keys of the
\* result are exactly the platforms of the list that are keys of self.clients.
C1_KeySet ==
    (pc = "returned" /\ video_path \in fs)
       => DOMAIN results = {platforms[i] : i \in DOMAIN platforms} \cap clients

\* a list with an unknown and a repeated name, one of them with a client
C1_Witness ==
    /\ pc = "returned"
    /\ video_path \in fs
    /\ platforms = <<"instagram", "tiktok", "instagram">>
    /\ clients = {"instagram", "youtube"}
    /\ DOMAIN results = {"instagram"}

\* C2: for a missing asset distribute_video returns an empty mapping and has
\* entered no adapter, run no transcode and waited no time.
C2_MissingFile ==
    (pc = "returned" /\ video_path \notin fs)
       => results = EmptyMap /\ attempts = <<>> /\ now = 0

C2_Witness ==
    /\ pc = "returned"
    /\ video_path \notin fs
    /\ clients = Known
    /\ Len(platforms) = 2
    /\ settings.platforms.haskey

\* an attempt that failed: the settings lookup raised, or the remote service
\* rejected, or the long-form host's response carried no id
C3Failed(a) ==
    \/ ~settings.platforms.haskey
    \/ a.reply = "rejected"
    \/ (a.platform = "youtube" /\ a.reply = "accepted_no_id")

\* C3: no exception leaves distribute_video, the loop always has a next step
\* until it returns, and every failed attempt assigns False to its platform's
\* entry (which holds it until a later attempt of the same platform, if any).
C3_NeverRaises ==
    /\ pc # "raised"
    /\ pc = "loop" => idx \in 1..Len(platforms)
    /\ \A k \in DOMAIN attempts :
          C3Failed(attempts[k])
             => /\ attempts[k].assigned
                /\ attempts[k].value = FALSE
                /\ k = LastOf(attempts[k].platform)
                      => /\ attempts[k].platform \in DOMAIN results
                         /\ results[attempts[k].platform] = FALSE

\* both platforms fail at the settings lookup, inside the try block
C3_Witness ==
    /\ pc = "returned"
    /\ ~settings.platforms.haskey
    /\ Len(attempts) = 2
    /\ attempts[1].platform # attempts[2].platform
    /\ \A p \in DOMAIN results : results[p] = FALSE
    /\ Cardinality(DOMAIN results) = 2

\* C4: the entry of a platform is what its own (last) attempt produced, true
\* iff its adapter returned true; every attempt assigns its entry; and the
\* platforms attempted are all the platforms with a client up to the loop's
\* position, whatever the earlier attempts did.
C4_Independent ==
    InCall =>
       /\ \A p \in DOMAIN results :
             /\ AttemptsOf(p) # {}
             /\ results[p] = (attempts[LastOf(p)].ret = <<TRUE>>)
       /\ \A k \in DOMAIN attempts : attempts[k].assigned
       /\ {attempts[k].idx : k \in DOMAIN attempts}
             = {i \in DOMAIN platforms : i < idx /\ platforms[i] \in clients}
       /\ Len(attempts)
             = Cardinality({i \in DOMAIN platforms : i < idx /\ platforms[i] \in clients})

\* the first platform fails, the second one succeeds, the failure is kept
C4_Witness ==
    /\ pc = "returned"
    /\ Len(attempts) = 2
    /\ attempts[1].platform # attempts[2].platform
    /\ attempts[1].reply = "rejected"
    /\ attempts[2].reply = "accepted"
    /\ results[attempts[1].platform] = FALSE
    /\ results[attempts[2].platform] = TRUE

\* C5: the adapters are entered one after the other in the order of the list,
\* and an adapter is entered at least five time units after the one before it.
C5_OrderPacing ==
    \A j, k \in DOMAIN attempts :
       (j < k /\ attempts[j].invoked /\ attempts[k].invoked)
          => /\ attempts[j].idx < attempts[k].idx
             /\ attempts[j].until <= attempts[k].at
             /\ attempts[k].at - attempts[j].at >= 5

\* three platforms, three adapter calls, the first of which took some time
C5_Witness ==
    /\ pc = "returned"
    /\ platforms = <<"youtube", "instagram", "facebook">>
    /\ Len(attempts) = 3
    /\ \A k \in 1..3 : attempts[k].invoked
    /\ attempts[2].at = 6
    /\ attempts[3].at = 11

\* C6: every attempt that assigned an entry, raised in the try block or not,
\* was followed by the wait of five.
C6_PaceAfterEveryAttempt ==
    \A k \in DOMAIN attempts :
       attempts[k].assigned
          => attempts[k].slept /\ attempts[k].until - attempts[k].at >= 5

\* what _process_video is to return
C7Expected(path, platform, ffmpeg_ok) ==
    IF ffmpeg_ok
      THEN [dir |-> <<"uploads", "processed">>, name |-> <<platform, "_">> \o path.name]
      ELSE path

\* C7: _process_video raises nothing and returns the source path when ffmpeg
\* failed, uploads/processed/{platform}_{name} otherwise; the adapter hands
\* the returned path to the remote service.
C7_Fallback ==
    /\ pc = "direct" =>
          LET d == direct[1]
          IN  /\ ~d.result.exc
              /\ d.result.processed = <<C7Expected(d.path, d.platform, d.ffmpeg_ok)>>
              /\ d.has_client => /\ Len(d.result.remote) = 1
                                 /\ d.result.remote[1].path = d.result.processed[1]
    /\ \A k \in DOMAIN attempts :
          attempts[k].invoked
             => /\ attempts[k].processed
                      = <<C7Expected(video_path, attempts[k].platform, attempts[k].ffmpeg_ok)>>
                /\ Len(attempts[k].remote) = 1
                /\ attempts[k].remote[1].path = attempts[k].processed[1]

\* ffmpeg failed and the upload of the original file was accepted
C7_Witness ==
    /\ pc = "returned"
    /\ Len(attempts) = 2
    /\ attempts[1].invoked /\ attempts[2].invoked
    /\ ~attempts[1].ffmpeg_ok
    /\ attempts[1].remote[1].path = video_path
    /\ attempts[1].value = TRUE
    /\ attempts[2].ffmpeg_ok
    /\ attempts[2].remote[1].path # video_path

\* the remote method an upload type is sent to
C8Endpoint(platform, type) ==
    CASE platform = "youtube" ->
           IF type = "short" THEN "videos.insert(short)" ELSE "videos.insert"
      [] platform = "instagram" ->
           IF type = "reels" THEN "clip_upload"
           ELSE IF type = "story" THEN "video_upload_to_story" ELSE "video_upload"
      [] platform = "facebook" ->
           IF type = "reels" THEN "create_reel" ELSE "create_video"

\* C8 as claimed: every adapter call invokes the remote service exactly once,
\* raises nothing, returns true only on acceptance and false on rejection.
C8_ExactlyOnce ==
    pc = "direct" =>
       LET d == direct[1]
       IN  /\ Len(d.result.remote) = 1
           /\ ~d.result.exc
           /\ d.result.value => d.reply # "rejected"
           /\ d.reply = "rejected" => ~d.result.value

\* C8 amended: every adapter call, for every options.type, invokes the remote
\* service exactly once when the platform has a client and not at all when it
\* has none, raises nothing, returns true only when the service accepted and
\* false on a rejection or a missing client.
C8_AtMostOnce ==
    pc = "direct" =>
       LET d == direct[1]
       IN  /\ Len(d.result.remote) = (IF d.has_client THEN 1 ELSE 0)
           /\ d.has_client => d.result.remote[1].endpoint = C8Endpoint(d.platform, d.type)
           /\ ~d.result.exc
           /\ d.result.value => (d.has_client /\ d.reply # "rejected")
           /\ (d.reply = "rejected" \/ ~d.has_client) => ~d.result.value

\* an adapter called for a platform without a client
C8_Witness ==
    /\ pc = "direct"
    /\ ~direct[1].has_client
    /\ direct[1].type = "reels"
    /\ direct[1].reply = "accepted"
    /\ direct[1].result.remote = <<>>
    /\ ~direct[1].result.value

C10Videos ==
    { [dir |-> <<"uploads">>, name |-> <<"clip", ".", "mp4">>],
      [dir |-> <<"uploads">>, name |-> <<"HOLIDAY", ".", "MOV">>] }

C10Processed(file) == [dir |-> <<"uploads", "processed">>, name |-> file.name]

\* C10: process_upload_folder distributes each video of uploads/ once and
\* moves it to uploads/processed/ whatever distribute_video returned; a moved
\* file is no longer in uploads/ and is never listed by a scan again; the
\* other files are neither distributed nor moved.
C10_FolderMoves ==
    /\ \A k \in DOMAIN folderLog :
          LET e == folderLog[k]
          IN  /\ e.distributed = (e.file \in C10Videos)
              /\ e.moved = (e.file \in C10Videos)
              /\ e.moved => (e.file \notin fs /\ C10Processed(e.file) \in fs)
              /\ ~e.moved => e.file \in fs
    /\ \A j, k \in DOMAIN folderLog : j # k => folderLog[j].file # folderLog[k].file
    /\ \A f \in pending : f \in fs /\ f.dir = <<"uploads">>
    /\ (InCall /\ caller = "folder")
          => (video_path \in C10Videos /\ video_path \in fs /\ video_path \in pending)
    /\ pc = "folder" => \A f \in C10Videos : f \in fs => f \in pending
    /\ \A f \in C10Videos : f \notin fs => C10Processed(f) \in fs
    /\ \A f \in InitFiles \ C10Videos : f \in fs

\* a video whose uploads all failed was moved, a text file was left alone
C10_Witness ==
    /\ pc = "folder"
    /\ \E k \in DOMAIN folderLog :
          /\ folderLog[k].moved
          /\ Cardinality(DOMAIN folderLog[k].results) = 3
          /\ \A p \in DOMAIN folderLog[k].results : ~folderLog[k].results[p]
          /\ folderLog[k].file.name = <<"HOLIDAY", ".", "MOV">>
    /\ \E k \in DOMAIN folderLog : ~folderLog[k].moved

====
